---------------------------- MODULE Spec2Model ----------------------------
(***************************************************************************)
(* Model of src/cli_standard_kit/init_project.py: run_init and run.        *)
(*                                                                         *)
(* A Python string is a sequence of tokens.  The characters an argument    *)
(* may hold are single tokens ("a", the single quote); the fixed parts of  *)
(* a command line are single tokens too ("cookiecutter", "--no-input",     *)
(* "project_name=", the separating space).  run hands the command line to  *)
(* /bin/sh (shell=True), so the words the external tool receives are those *)
(* the shell makes of the line: ShellWords.                                *)
(*                                                                         *)
(* The external tools (cookiecutter, git, venv) are the environment: each  *)
(* returns some exit status and leaves the file system in one of the       *)
(* states the tool can leave it in.  The tool is started in a directory    *)
(* that holds no project directory, repository or environment yet.         *)
(***************************************************************************)
EXTENDS Integers, Sequences, FiniteSets

VARIABLES
    argv,          \* sys.argv
    pc,            \* position of run_init
    project_name,  \* the local of run_init
    cwd,           \* the process working directory
    out,           \* lines printed to standard output, in order
    issued,        \* external commands handed to subprocess.run, in order
    child,         \* the child process of the current run call
    returncode,    \* exit status of the last child that returned
    error,         \* the exception that ended the run, if any
    exitStatus,    \* exit status of the tool
    dirs,          \* directories that exist in the start directory
    repo,          \* the git repository created by the run
    venv           \* the virtual environment created by the run

vars == <<argv, pc, project_name, cwd, out, issued, child, returncode,
          error, exitStatus, dirs, repo, venv>>

----------------------------------------------------------------------------
(* Bounds *)

MaxNameLen == 2

MaxStatus == 2

----------------------------------------------------------------------------
(* Strings *)

Quote == "'"

Space == " "

Chars == {"a", Quote}

RECURSIVE StringsUpTo(_)
StringsUpTo(n) ==
    IF n = 0 THEN {<< >>}
    ELSE LET shorter == StringsUpTo(n - 1)
         IN  shorter \cup {Append(s, c) : s \in {t \in shorter : Len(t) = n - 1}, c \in Chars}

Names == StringsUpTo(MaxNameLen)

ProgName == <<"cli-standard-kit">>

InitWord == <<"i", "n", "i", "t">>

Words == Names \cup {InitWord}

ExtraArgs == {n \in Names : Len(n) = 1}

ArgvSet ==
    {<<ProgName>>}
      \cup {<<ProgName, w>> : w \in Words}
      \cup {<<ProgName, w, x>> : w \in Words, x \in ExtraArgs}

Unset == <<"<unset>">>

Absent == <<"<absent>">>

StartDir == <<".">>

DefaultDir == <<"<template default>">>

NoDir == <<"<none>">>

Pending == -1

NotExited == -1

ExitCodes == 0 .. MaxStatus

Last(s) == s[Len(s)]

Line(tag, arg) == [tag |-> tag, arg |-> arg]

Tags(lines) == [i \in 1 .. Len(lines) |-> lines[i].tag]

IsPrefix(s, t) == Len(s) <= Len(t) /\ \A i \in 1 .. Len(s) : s[i] = t[i]

----------------------------------------------------------------------------
(* The command lines *)

CookiecutterCmd(name) ==
    <<"cookiecutter", Space, "gh:c3nk/cookiecutter-cli-standard-kit", Space,
      "--no-input", Space, "project_name=", Quote>>
      \o name
      \o <<Quote, Space, "project_slug=", Quote>>
      \o name
      \o <<Quote>>

GitCmd == <<"git init -q && git add . && git commit -m 'init project'">>

BranchCmd == <<"git branch -M main">>

VenvCmd == <<"python3 -m venv .venv">>

(* What /bin/sh makes of a command line: words are separated by unquoted   *)
(* spaces, a single quote opens a quoted stretch that runs to the next     *)
(* single quote, the quotes themselves are removed.                        *)
RECURSIVE ShellScan(_, _, _, _, _, _)
ShellScan(line, i, inQuote, cur, hasCur, words) ==
    IF i > Len(line)
    THEN IF inQuote
         THEN [ok |-> FALSE, words |-> << >>]
         ELSE [ok |-> TRUE, words |-> IF hasCur THEN Append(words, cur) ELSE words]
    ELSE LET c == line[i]
         IN  IF inQuote
             THEN IF c = Quote
                  THEN ShellScan(line, i + 1, FALSE, cur, TRUE, words)
                  ELSE ShellScan(line, i + 1, TRUE, Append(cur, c), TRUE, words)
             ELSE IF c = Quote
                  THEN ShellScan(line, i + 1, TRUE, cur, TRUE, words)
                  ELSE IF c = Space
                       THEN IF hasCur
                            THEN ShellScan(line, i + 1, FALSE, << >>, FALSE, Append(words, cur))
                            ELSE ShellScan(line, i + 1, FALSE, << >>, FALSE, words)
                       ELSE ShellScan(line, i + 1, FALSE, Append(cur, c), TRUE, words)

ShellWords(line) == ShellScan(line, 1, FALSE, << >>, FALSE, << >>)

(* The value the template engine receives for a key=value word.            *)
TemplateVar(words, key) ==
    LET at == {i \in 2 .. Len(words) : words[i] # << >> /\ Head(words[i]) = key}
    IN  IF at = {} THEN Absent
        ELSE Tail(words[CHOOSE i \in at : \A j \in at : j <= i])

(* The invocation the template engine receives from a command line.        *)
Invocation(line) ==
    LET sh == ShellWords(line)
    IN  [parsed       |-> sh.ok,
         tool         |-> IF sh.ok /\ sh.words # << >> THEN sh.words[1] ELSE Absent,
         noInput      |-> sh.ok /\ \E i \in 2 .. Len(sh.words) : sh.words[i] = <<"--no-input">>,
         project_name |-> IF sh.ok THEN TemplateVar(sh.words, "project_name=") ELSE Absent,
         project_slug |-> IF sh.ok THEN TemplateVar(sh.words, "project_slug=") ELSE Absent]


----------------------------------------------------------------------------
(* The file system the external tools leave behind *)

NoRepo == [where |-> NoDir, initialized |-> FALSE, staged |-> FALSE,
           commits |-> 0, branch |-> "none"]

NoVenv == [where |-> NoDir, state |-> "none"]

(* The branch a fresh repository starts on (git's init.defaultBranch).     *)
DefaultBranches == {"master", "main"}

(* The directory a template run materializes: the one named by the slug it *)
(* received, or the one the remote template names by itself.               *)
CreatedDirChoices(inv) ==
    {DefaultDir} \cup
        (IF inv.project_slug \notin {Absent, << >>} THEN {inv.project_slug} ELSE {})

----------------------------------------------------------------------------
(* Initial state: the process has been started with some argument list *)

Init ==
    /\ argv \in ArgvSet
    /\ pc = "start"
    /\ project_name = Unset
    /\ cwd = StartDir
    /\ out = << >>
    /\ issued = << >>
    /\ child = "none"
    /\ returncode = 0
    /\ error = "none"
    /\ exitStatus = NotExited
    /\ dirs = {}
    /\ repo = NoRepo
    /\ venv = NoVenv

----------------------------------------------------------------------------
(* run_init *)

UsageExitStatus == 1

UncaughtExitStatus == 1

(* sys.argv[i], zero-based as in the source *)
ArgvAt(i) == argv[i + 1]

MissingArgument == Len(argv) < 2

(* Fault variant of NextStep: the os.chdir statement is left out. *)
NextStep_SkipChdir(p) ==
    CASE p = "cookiecutter" -> "git"
      [] p = "chdir"        -> "git"
      [] p = "git"          -> "branch"
      [] p = "branch"       -> "venv"
      [] p = "venv"         -> "ready"

(* The statement that follows a step that completed. *)
NextStep(p) ==
    CASE p = "cookiecutter" -> "chdir"
      [] p = "chdir"        -> "git"
      [] p = "git"          -> "branch"
      [] p = "branch"       -> "venv"
      [] p = "venv"         -> "ready"

(* run(cmd), up to the start of the child: the echo line, then the shell.  *)
RunStart(kind, line, printedBefore) ==
    /\ child = "none"
    /\ out' = out \o printedBefore \o <<Line("run", line)>>
    /\ issued' = Append(issued, [kind |-> kind, line |-> line, cwd |-> cwd, rc |-> Pending])
    /\ child' = "running"
    /\ UNCHANGED <<argv, pc, project_name, cwd, returncode, error, exitStatus,
                   dirs, repo, venv>>

(* The child of the current run call ends with exit status s. *)
Exits(kind, s) ==
    /\ pc = kind
    /\ child = "running"
    /\ child' = "returned"
    /\ returncode' = s
    /\ issued' = [issued EXCEPT ![Len(issued)].rc = s]
    /\ UNCHANGED <<argv, pc, project_name, cwd, out, error, exitStatus>>

(* Fault variant of Usage: sys.exit() without a status. *)
Usage_ExitZero ==
    /\ pc = "start"
    /\ MissingArgument
    /\ out' = Append(out, Line("usage", << >>))
    /\ pc' = "exited"
    /\ error' = "SystemExit"
    /\ exitStatus' = 0
    /\ UNCHANGED <<argv, project_name, cwd, issued, child, returncode, dirs, repo, venv>>

(* if len(sys.argv) < 2: print usage; sys.exit(1) *)
Usage ==
    /\ pc = "start"
    /\ MissingArgument
    /\ out' = Append(out, Line("usage", << >>))
    /\ pc' = "exited"
    /\ error' = "SystemExit"
    /\ exitStatus' = UsageExitStatus
    /\ UNCHANGED <<argv, project_name, cwd, issued, child, returncode, dirs, repo, venv>>

(* project_name = sys.argv[1]; print the announcement *)
Begin ==
    /\ pc = "start"
    /\ ~MissingArgument
    /\ project_name' = ArgvAt(1)
    /\ out' = Append(out, Line("creating", ArgvAt(1)))
    /\ pc' = "cookiecutter"
    /\ UNCHANGED <<argv, cwd, issued, child, returncode, error, exitStatus,
                   dirs, repo, venv>>

RunCookiecutter ==
    /\ pc = "cookiecutter"
    /\ RunStart("cookiecutter", CookiecutterCmd(project_name), << >>)

(* The shell either cannot parse the line (nothing is started) or starts   *)
(* the template engine, which ends with some status and, on success,       *)
(* leaves the directory it created; a failed run may leave one too.        *)
CookiecutterExits ==
    /\ pc = "cookiecutter"
    /\ child = "running"
    /\ LET inv == Invocation(Last(issued).line)
       IN  \E s \in ExitCodes, d \in CreatedDirChoices(inv), left \in BOOLEAN :
               /\ inv.parsed \/ (s # 0 /\ ~left)
               /\ Exits("cookiecutter", s)
               /\ dirs' = IF inv.parsed /\ (s = 0 \/ left) THEN dirs \cup {d} ELSE dirs
               /\ UNCHANGED <<repo, venv>>

(* Fault variant of ChDir: a failing os.chdir is swallowed. *)
ChDir_Unchecked ==
    /\ pc = "chdir"
    /\ cwd' = IF project_name \in dirs THEN project_name ELSE cwd
    /\ out' = Append(out, Line("entered", cwd'))
    /\ pc' = "git"
    /\ UNCHANGED <<argv, project_name, issued, child, returncode, error, exitStatus,
                   dirs, repo, venv>>

(* os.chdir(project_name); print("Entered:", os.getcwd()) *)
ChDir ==
    /\ pc = "chdir"
    /\ IF project_name \in dirs
       THEN /\ cwd' = project_name
            /\ out' = Append(out, Line("entered", project_name))
            /\ pc' = NextStep(pc)
            /\ UNCHANGED <<error, exitStatus>>
       ELSE /\ pc' = "failed"
            /\ error' = "FileNotFoundError"
            /\ exitStatus' = UncaughtExitStatus
            /\ UNCHANGED <<cwd, out>>
    /\ UNCHANGED <<argv, project_name, issued, child, returncode, dirs, repo, venv>>

RunGit ==
    /\ pc = "git"
    /\ RunStart("git", GitCmd, << >>)

(* Fault variant of GitExits: the chain ends after git add. *)
GitExits_NoCommit ==
    \E reached \in {"init", "add", "ok"}, s \in ExitCodes, b \in DefaultBranches :
        /\ (reached = "ok") <=> (s = 0)
        /\ Exits("git", s)
        /\ repo' = IF reached = "init" THEN repo
                   ELSE [where       |-> cwd,
                         initialized |-> TRUE,
                         staged      |-> reached = "ok",
                         commits     |-> 0,
                         branch      |-> b]
        /\ UNCHANGED <<dirs, venv>>

(* git init -q && git add . && git commit: the chain stops at the first    *)
(* command that fails and returns its status.                              *)
GitExits ==
    \E reached \in {"init", "add", "commit", "ok"}, s \in ExitCodes, b \in DefaultBranches :
        /\ (reached = "ok") <=> (s = 0)
        /\ Exits("git", s)
        /\ repo' = IF reached = "init" THEN repo
                   ELSE [where       |-> cwd,
                         initialized |-> TRUE,
                         staged      |-> reached \in {"commit", "ok"},
                         commits     |-> IF reached = "ok" THEN 1 ELSE 0,
                         branch      |-> b]
        /\ UNCHANGED <<dirs, venv>>

RunBranch ==
    /\ pc = "branch"
    /\ RunStart("branch", BranchCmd, << >>)

BranchExits ==
    \E s \in ExitCodes :
        /\ Exits("branch", s)
        /\ repo' = IF s = 0 /\ repo.where = cwd THEN [repo EXCEPT !.branch = "main"] ELSE repo
        /\ UNCHANGED <<dirs, venv>>

RunVenv ==
    /\ pc = "venv"
    /\ RunStart("venv", VenvCmd, <<Line("venv_creating", << >>)>>)

VenvExits ==
    \E s \in ExitCodes, state \in {"none", "partial", "complete"} :
        /\ (state = "complete") <=> (s = 0)
        /\ Exits("venv", s)
        /\ venv' = IF state = "none" THEN venv ELSE [where |-> cwd, state |-> state]
        /\ UNCHANGED <<dirs, repo>>

(* subprocess.run(..., check=True) returns: the child's status was 0 *)
RunReturns ==
    /\ child = "returned"
    /\ returncode = 0
    /\ child' = "none"
    /\ pc' = NextStep(pc)
    /\ UNCHANGED <<argv, project_name, cwd, out, issued, returncode, error,
                   exitStatus, dirs, repo, venv>>

(* Fault variant of RunRaises: check=True is left out. *)
RunRaises_Unchecked ==
    /\ child = "returned"
    /\ returncode # 0
    /\ child' = "none"
    /\ pc' = NextStep(pc)
    /\ UNCHANGED <<argv, project_name, cwd, out, issued, returncode, error,
                   exitStatus, dirs, repo, venv>>

(* Fault variant of RunRaises: the error is caught and the child's status  *)
(* is handed to sys.exit.                                                  *)
RunRaises_Propagate ==
    /\ child = "returned"
    /\ returncode # 0
    /\ child' = "none"
    /\ pc' = "failed"
    /\ error' = "CalledProcessError"
    /\ exitStatus' = returncode
    /\ UNCHANGED <<argv, project_name, cwd, out, issued, returncode, dirs, repo, venv>>

(* Fault variant of RunRaises: the working directory is restored.          *)
RunRaises_Restore ==
    /\ child = "returned"
    /\ returncode # 0
    /\ child' = "none"
    /\ pc' = "failed"
    /\ error' = "CalledProcessError"
    /\ exitStatus' = UncaughtExitStatus
    /\ cwd' = StartDir
    /\ UNCHANGED <<argv, project_name, out, issued, returncode, dirs, repo, venv>>

(* Fault variant of RunRaises: what the run created is removed.            *)
RunRaises_Cleanup ==
    /\ child = "returned"
    /\ returncode # 0
    /\ child' = "none"
    /\ pc' = "failed"
    /\ error' = "CalledProcessError"
    /\ exitStatus' = UncaughtExitStatus
    /\ dirs' = {}
    /\ repo' = NoRepo
    /\ venv' = NoVenv
    /\ UNCHANGED <<argv, project_name, cwd, out, issued, returncode>>

(* subprocess.run(..., check=True) raises CalledProcessError, which nothing *)
(* catches: the interpreter prints the traceback and exits.                 *)
RunRaises ==
    /\ child = "returned"
    /\ returncode # 0
    /\ child' = "none"
    /\ pc' = "failed"
    /\ error' = "CalledProcessError"
    /\ exitStatus' = UncaughtExitStatus
    /\ UNCHANGED <<argv, project_name, cwd, out, issued, returncode, dirs, repo, venv>>

(* the closing prints; run_init returns *)
Finish ==
    /\ pc = "ready"
    /\ out' = out \o <<Line("venv_created", << >>), Line("ready", << >>),
                       Line("hint", project_name)>>
    /\ pc' = "done"
    /\ exitStatus' = 0
    /\ UNCHANGED <<argv, project_name, cwd, issued, child, returncode, error,
                   dirs, repo, venv>>

Next ==
    \/ Usage
    \/ Begin
    \/ RunCookiecutter
    \/ CookiecutterExits
    \/ ChDir
    \/ RunGit
    \/ GitExits
    \/ RunBranch
    \/ BranchExits
    \/ RunVenv
    \/ VenvExits
    \/ RunReturns
    \/ RunRaises
    \/ Finish

Spec == Init /\ [][Next]_vars

(* The interpreter always takes its next step, and every external command  *)
(* that was started returns.                                               *)
FairSpec == Spec /\ WF_vars(Next)

Terminated == pc \in {"exited", "failed", "done"}

----------------------------------------------------------------------------
(* Vocabulary of the properties *)

StepOrder == <<"cookiecutter", "git", "branch", "venv">>

FullOutput ==
    <<"creating", "run", "entered", "run", "run", "venv_creating", "run",
      "venv_created", "ready", "hint">>

IssuedKinds == [i \in 1 .. Len(issued) |-> issued[i].kind]

Count(kind) == Cardinality({i \in 1 .. Len(issued) : issued[i].kind = kind})

Printed(tag) == \E i \in 1 .. Len(out) : out[i].tag = tag

FailedCommand(i) == issued[i].rc \notin {0, Pending}

TemplateSucceeded == Len(issued) >= 1 /\ issued[1].rc = 0

PastChdir == TemplateSucceeded /\ pc \notin {"cookiecutter", "chdir"}

AllStepsSucceeded ==
    /\ pc = "done"
    /\ IssuedKinds = StepOrder
    /\ \A i \in 1 .. Len(issued) : issued[i].rc = 0
    /\ Printed("entered")

----------------------------------------------------------------------------
(* C1: with no project-name argument the tool prints the usage message and *)
(* exits with status 1; no external command is issued, the working         *)
(* directory is not changed and nothing is created.                        *)
C1_NoArgumentUsage ==
    MissingArgument =>
        /\ issued = << >>
        /\ child = "none"
        /\ cwd = StartDir
        /\ dirs = {} /\ repo = NoRepo /\ venv = NoVenv
        /\ \/ pc = "start" /\ out = << >> /\ exitStatus = NotExited
           \/ pc = "exited" /\ out = <<Line("usage", << >>)>> /\ exitStatus = 1

C1_Witness == MissingArgument /\ pc = "exited" /\ Printed("usage")

(* C2: a command that exited non-zero is the last step of the run: nothing *)
(* is issued after it, neither closing line is printed, and after a failed *)
(* template generation there is no directory change, repository or         *)
(* environment.                                                            *)
C2_FailFast ==
    \A i \in 1 .. Len(issued) :
        FailedCommand(i) =>
            /\ i = Len(issued)
            /\ pc \in {issued[i].kind, "failed"}
            /\ pc = issued[i].kind => child = "returned"
            /\ child # "running"
            /\ ~Printed("venv_created") /\ ~Printed("ready") /\ ~Printed("hint")
            /\ issued[i].kind = "cookiecutter" =>
                   /\ cwd = StartDir
                   /\ ~Printed("entered")
                   /\ repo = NoRepo
                   /\ venv = NoVenv
            /\ issued[i].kind \in {"git", "branch"} => venv = NoVenv
            /\ issued[i].kind = "git" => repo.commits = 0

C2_Witness ==
    /\ pc = "failed"
    /\ error = "CalledProcessError"
    /\ Len(issued) = 1
    /\ FailedCommand(1)

(* C3 as stated: exit status 0 exactly on full success, 1 for the missing  *)
(* argument, and the failing command's own status s when a command fails.  *)
C3_Original ==
    /\ (exitStatus = 0) <=> AllStepsSucceeded
    /\ (MissingArgument /\ Terminated) => exitStatus = 1
    /\ error = "CalledProcessError" =>
           exitStatus # 0 /\ exitStatus = Last(issued).rc

(* C3 as amended: exit status 0 exactly on full success, 1 for the missing *)
(* argument, and 1 whenever a command fails with any status s # 0 (or the  *)
(* directory change fails): the uncaught error ends the interpreter with 1,*)
(* the command's status is not propagated.                                 *)
C3_ExitStatus ==
    /\ (exitStatus = 0) <=> AllStepsSucceeded
    /\ Terminated <=> exitStatus # NotExited
    /\ (MissingArgument /\ Terminated) => exitStatus = 1
    /\ error = "CalledProcessError" =>
           /\ FailedCommand(Len(issued))
           /\ exitStatus = 1
    /\ error = "FileNotFoundError" => exitStatus = 1

C3_Witness ==
    /\ error = "CalledProcessError"
    /\ Last(issued).rc = 2
    /\ exitStatus = 1

(* C4: given a project name, the template engine is invoked exactly once,  *)
(* as the first command, with the non-interactive flag and with the        *)
(* supplied name as the value of both project_name and project_slug.       *)
C4_Original ==
    /\ Count("cookiecutter") <= 1
    /\ (Terminated /\ ~MissingArgument) => Count("cookiecutter") = 1
    /\ issued # << >> =>
           /\ issued[1].kind = "cookiecutter"
           /\ LET inv == Invocation(issued[1].line)
              IN  /\ inv.tool = <<"cookiecutter">>
                  /\ inv.noInput
                  /\ inv.project_name = project_name
                  /\ inv.project_slug = project_name

(* C5 as stated: the working directory is the start directory up to and   *)
(* including a failed template generation, and it is the project directory *)
(* in every state after the step that follows a successful template        *)
(* generation.                                                             *)
C5_Original ==
    /\ cwd \in {StartDir, project_name}
    /\ ~TemplateSucceeded => cwd = StartDir
    /\ PastChdir => cwd = project_name

C5_DirectoryByPosition ==
    /\ cwd \in {StartDir, project_name}
    /\ ~TemplateSucceeded => cwd = StartDir
    /\ pc \in {"start", "exited", "cookiecutter", "chdir"} => cwd = StartDir
    /\ PastChdir =>
           IF error = "FileNotFoundError"
           THEN cwd = StartDir /\ project_name \notin dirs
           ELSE cwd = project_name /\ project_name \in dirs
    /\ Printed("entered") <=> cwd = project_name

C5_ChangedOnceNeverRestored ==
    cwd' # cwd =>
        /\ cwd = StartDir
        /\ pc = "chdir"
        /\ TemplateSucceeded
        /\ project_name \in dirs
        /\ cwd' = project_name
        /\ cwd' # StartDir

(* C5 as amended: the working directory changes at most once per run; it   *)
(* is the start directory up to and including a failed template            *)
(* generation; right after a successful template generation it becomes the *)
(* directory named by the project name if that directory exists (if not,   *)
(* os.chdir raises, the run ends and the directory is still the start      *)
(* directory); once changed it stays the project directory in every later  *)
(* state, also when a later git or venv command fails.                     *)
C5_WorkingDirectory ==
    []C5_DirectoryByPosition /\ [][C5_ChangedOnceNeverRestored]_vars

C5_Witness ==
    /\ pc = "failed"
    /\ error = "CalledProcessError"
    /\ Len(issued) >= 2
    /\ cwd = project_name

(* C6: the steps happen in one fixed order without overlap: the commands   *)
(* issued and the lines printed are prefixes of the fixed sequences, a     *)
(* command is issued only after every earlier one returned 0, at most one  *)
(* child runs, the directory change lies between template generation and   *)
(* the git commands, and the hint comes after all four commands.           *)
C6_Order ==
    ~MissingArgument =>
        /\ IsPrefix(IssuedKinds, StepOrder)
        /\ IsPrefix(Tags(out), FullOutput)
        /\ Cardinality({i \in 1 .. Len(out) : out[i].tag = "run"}) = Len(issued)
        /\ \A i \in 1 .. Len(issued) - 1 : issued[i].rc = 0
        /\ (child = "running") <=> (issued # << >> /\ Last(issued).rc = Pending)
        /\ issued # << >> => issued[1].cwd = StartDir
        /\ Printed("entered") => TemplateSucceeded
        /\ Len(issued) >= 2 =>
               /\ Printed("entered")
               /\ \A i \in 2 .. Len(issued) : issued[i].cwd = project_name
        /\ Printed("venv_created") => IssuedKinds = StepOrder /\ Last(issued).rc = 0
        /\ Printed("hint") => IssuedKinds = StepOrder /\ Last(issued).rc = 0

C6_Witness == pc = "done" /\ Len(issued) = 4 /\ Printed("hint")

(* C7: after full success for name n the working directory is n, n holds a *)
(* repository with exactly one commit on branch main, and n holds a        *)
(* complete .venv; the branch rename is only issued in a run in which the  *)
(* initial commit was created.                                             *)
C7_EndState ==
    /\ pc = "done" =>
           /\ cwd = project_name
           /\ project_name \in dirs
           /\ issued[2].line = GitCmd
           /\ repo = [where |-> project_name, initialized |-> TRUE, staged |-> TRUE,
                      commits |-> 1, branch |-> "main"]
           /\ venv = [where |-> project_name, state |-> "complete"]
    /\ Count("branch") > 0 => repo.commits = 1 /\ repo.where = project_name

C7_Witness == pc = "done" /\ repo.branch = "main" /\ venv.state = "complete"

(* C8: run_init proceeds only with exactly one positional argument, and    *)
(* the project name it uses is that argument: the one that follows the     *)
(* sub-command in `cli-standard-kit init <project_name>`.                  *)
C8_Original ==
    project_name # Unset =>
        \/ Len(argv) = 2 /\ project_name = ArgvAt(1)
        \/ Len(argv) = 3 /\ ArgvAt(1) = InitWord /\ project_name = ArgvAt(2)

(* C9: git init, the branch rename and the venv creation are only issued   *)
(* while the working directory is the project directory; when the template *)
(* engine reports success and the directory named by the project name does *)
(* not exist, the run ends with a non-zero status and issues no git or     *)
(* venv command.                                                           *)
C9_InProjectDirectory ==
    /\ \A i \in 1 .. Len(issued) :
           issued[i].kind \in {"git", "branch", "venv"} =>
               /\ issued[i].cwd = project_name
               /\ issued[i].cwd # StartDir
               /\ issued[i].cwd \in dirs
    /\ (PastChdir /\ project_name \notin dirs) => error = "FileNotFoundError"
    /\ error = "FileNotFoundError" =>
           /\ pc = "failed"
           /\ exitStatus \notin {0, NotExited}
           /\ IssuedKinds = <<"cookiecutter">>
           /\ issued[1].rc = 0
           /\ cwd = StartDir
           /\ repo = NoRepo /\ venv = NoVenv

C9_Witness == error = "FileNotFoundError" /\ pc = "failed" /\ DefaultDir \in dirs

C10_NoRetry == \A i \in 1 .. Len(StepOrder) : Count(StepOrder[i]) <= 1

C10_NoCleanup ==
    (pc' = "failed" /\ pc # "failed") =>
        /\ dirs' = dirs
        /\ repo' = repo
        /\ venv' = venv
        /\ cwd' = cwd
        /\ issued' = issued

C10_EndIsFinal == Terminated => UNCHANGED vars

C10_BlockedWhileRunning ==
    child = "running" =>
        /\ child' = "returned"
        /\ pc' = pc
        /\ out' = out
        /\ cwd' = cwd
        /\ Len(issued') = Len(issued)

(* C10: every command is issued at most once; the step that fails leaves   *)
(* the created directory, the repository, the environment and the working  *)
(* directory as they were, and nothing changes after the end; while a      *)
(* command has not returned the tool takes no step; and when every issued  *)
(* command returns, the run terminates.                                    *)
C10_NoRetryNoCleanupTerminates ==
    /\ []C10_NoRetry
    /\ [][C10_NoCleanup]_vars
    /\ [][C10_EndIsFinal]_vars
    /\ [][C10_BlockedWhileRunning]_vars
    /\ <>Terminated

C10_Witness ==
    /\ pc = "failed"
    /\ repo.initialized /\ repo.commits = 0
    /\ cwd = project_name
    /\ project_name \in dirs

============================================================================
